---- MODULE Spec2Model ----
(***************************************************************************)
(* Model of the metrics-derivation and caching pipeline of                 *)
(* youtube-research-tool:                                                  *)
(*   - YouTubeDataAPI (src/get_video_data.py): the in-memory video and     *)
(*     channel caches, the batched detail lookups and format_video_data;   *)
(*   - GoogleSheetsManager (src/update_gsheet.py): the video_history log   *)
(*     and get_previous_stats.                                             *)
(*                                                                         *)
(* Three specifications share the variables:                              *)
(*   SpecFormat  format_video_data applied to a drawn batch,               *)
(*   Spec        a client on which get_videos_details and                  *)
(*               get_channel_details are called in any order,              *)
(*   SpecSheets  get_previous_stats applied to a drawn history log.        *)
(*                                                                         *)
(* Python values are modelled as follows.  A dict is a function; a key     *)
(* that may be missing holds an optional value, <<>> for "no such key" and *)
(* <<x>> for the value x, read with Get as dict.get reads it.  A ratio     *)
(* rounded to two decimals is the integer number of hundredths.            *)
(***************************************************************************)
EXTENDS Integers, Sequences, FiniteSets, TLC

VARIABLES
    \* ---- format_video_data (SpecFormat)
    videos,            \* the batch passed in: sequence of video items
    channels_data,     \* channel id -> channel item
    previous_stats,    \* [isNone, stats]: None, or video id -> previous row
    formatted_data,    \* the returned list
    fmt_pc,            \* "input" before the call, "done" after, "idle" elsewhere
    \* ---- YouTubeDataAPI client (Spec)
    remote_videos,     \* the video ids the remote API has an item for
    remote_channels,   \* the channel ids the remote API has an item for
    video_cache,       \* self.video_cache: video id -> item
    channel_cache,     \* self.channel_cache: channel id -> item
    last_call,         \* what the latest call on the client did and returned
    \* ---- GoogleSheetsManager (SpecSheets)
    history,           \* the video_history worksheet: [exists, header, rows]
    current_data,      \* the current_data worksheet: [exists, rows]
    today,             \* the date datetime.now() gives
    sheet_call,        \* what the latest call on the sheets manager did and returned
    \* ---- posting pace (SpecCadence) and _parse_duration (SpecDuration)
    publish_dates,     \* the parsed publish timestamps of a channel's latest videos
    posting_pace,      \* <<>> before the computation, <<details['posting_pace']>> after
    duration_str,      \* the argument of _parse_duration
    duration_seconds,  \* <<>> before the call, <<the returned total>> after
    \* ---- one search run of the dashboard or of generate_csv (SpecRun)
    run,               \* the position and the locals of the run under way
    \* ---- two runs writing to one spreadsheet (SpecConcurrent)
    log_sheet,         \* the video_history worksheet as the cells it holds
    writers            \* per run: the position inside its sheet operations

vars == << videos, channels_data, previous_stats, formatted_data, fmt_pc,
           remote_videos, remote_channels, video_cache, channel_cache, last_call,
           history, current_data, today, sheet_call,
           publish_dates, posting_pace, duration_str, duration_seconds,
           run, log_sheet, writers >>

fmtVars    == << videos, channels_data, previous_stats, formatted_data, fmt_pc >>
clientVars == << remote_videos, remote_channels, video_cache, channel_cache, last_call >>
sheetVars  == << history, current_data, today, sheet_call >>
paceVars   == << publish_dates, posting_pace >>
durVars    == << duration_str, duration_seconds >>
runVars    == << run >>
writerVars == << log_sheet, writers >>

(***************************************************************************)
(* Universe of identifiers and values.                                     *)
(***************************************************************************)
VideoIds   == {"v1", "v2", "v3"}
ChannelIds == {"c1", "c2", "c3"}

\* snippet.channelId of the items the remote API serves
ChannelOf(vid) ==
    IF vid = "v1" THEN "c1" ELSE IF vid \in {"v2", "v3"} THEN "c2" ELSE "c3"

Max(a, b) == IF a >= b THEN a ELSE b
Min(a, b) == IF a <= b THEN a ELSE b

\* dict.get(key, default) on an optional value
Get(opt, default) == IF opt = <<>> THEN default ELSE opt[1]

\* the optional values over a set
Optional(S) == {<<>>} \cup {<<x>> : x \in S}

\* all sequences over S of length 0..n
SeqUpTo(S, n) == UNION {[1..k -> S] : k \in 0..n}

\* the ids of a sequence of ids, as a set
Range(s) == {s[i] : i \in DOMAIN s}

(***************************************************************************)
(* format_video_data                                                       *)
(***************************************************************************)
\* bounds and value sets of the drawn batches
MaxBatch == 2
FmtVideoIds      == {"v1", "v2"}
ViewCounts       == {80, 150, 500}
SubscriberCounts == {0, 3, 8}
PrevViewCounts   == {100}

\* round(num / den, 2) for den > 0, in hundredths; Python rounds a tie that is
\* exactly representable (as every tie over the counts above is) to even
Round2(num, den) ==
    LET q == (100 * num) \div den
        r == (100 * num) % den
    IN  IF 2 * r < den THEN q
        ELSE IF 2 * r > den THEN q + 1
        ELSE IF q % 2 = 0 THEN q ELSE q + 1

\* engagement_ratio of one video, in hundredths
EngagementRatioClamped(view_count, subscriber_count) ==
    Round2(view_count, Max(subscriber_count, 1))
EngagementRatio(view_count, subscriber_count) ==
    IF subscriber_count > 0 THEN Round2(view_count, subscriber_count) ELSE 0

\* view_change of one video; hasPrev is "previous_stats and video_id in previous_stats"
ViewChangeAlways(hasPrev, view_count, prev_views) == view_count - prev_views
ViewChange(hasPrev, view_count, prev_views) ==
    IF hasPrev THEN view_count - prev_views ELSE 0

\* estimated_24h_views of one video
EstimatedViewsUnclamped(hasPrev, view_change) == view_change
EstimatedViews(hasPrev, view_change) ==
    IF hasPrev THEN Max(0, view_change) ELSE 0

\* int(channels_data.get(channel_id, {}).get('statistics', {}).get('subscriberCount', 1))
SubscriberCountOfListed(channels, channel_id) ==
    IF channel_id \in DOMAIN channels
    THEN Get(channels[channel_id].subscriberCount, 1)
    ELSE 0
SubscriberCount(channels, channel_id) ==
    IF channel_id \in DOMAIN channels
    THEN Get(channels[channel_id].subscriberCount, 1)
    ELSE 1

\* one iteration of the loop over videos
FormatVideo(video, channels, prev) ==
    LET video_id         == video.id
        channel_id       == video.channelId
        subscriber_count == SubscriberCount(channels, channel_id)
        view_count       == Get(video.viewCount, 0)
        hasPrev          == /\ ~prev.isNone
                            /\ prev.stats # <<>>
                            /\ video_id \in DOMAIN prev.stats
        prev_views       == IF hasPrev THEN Get(prev.stats[video_id].viewCount, 0) ELSE 0
        view_change      == ViewChange(hasPrev, view_count, prev_views)
    IN  [ video_id            |-> video_id,
          channel_id          |-> channel_id,
          view_count          |-> view_count,
          subscriber_count    |-> subscriber_count,
          engagement_ratio    |-> EngagementRatio(view_count, subscriber_count),
          estimated_24h_views |-> EstimatedViews(hasPrev, view_change),
          view_change         |-> view_change ]

\* the video items and the other inputs a call can be given
FmtVideoItems ==
    { [id |-> v, channelId |-> ChannelOf(v), viewCount |-> c] :
        v \in FmtVideoIds, c \in Optional(ViewCounts) }
ChannelStats == { [subscriberCount |-> s] : s \in Optional(SubscriberCounts) }
ChannelMaps  == UNION { [S -> ChannelStats] : S \in SUBSET {"c1", "c2"} }
PrevRows     == { [viewCount |-> c] : c \in Optional(PrevViewCounts) }
PrevStats    ==
    { [isNone |-> TRUE, stats |-> <<>>] } \cup
    { [isNone |-> FALSE, stats |-> m] :
        m \in UNION { [S -> PrevRows] : S \in SUBSET FmtVideoIds } }

\* the whole of format_video_data
FormatVideoData ==
    /\ fmt_pc = "input"
    /\ formatted_data' =
          [i \in DOMAIN videos |-> FormatVideo(videos[i], channels_data, previous_stats)]
    /\ fmt_pc' = "done"
    /\ UNCHANGED << videos, channels_data, previous_stats >>
    /\ UNCHANGED clientVars
    /\ UNCHANGED sheetVars
    /\ UNCHANGED paceVars
    /\ UNCHANGED durVars
    /\ UNCHANGED runVars
    /\ UNCHANGED writerVars

(***************************************************************************)
(* YouTubeDataAPI: the caches and the batched detail lookups               *)
(***************************************************************************)
\* ids per remote request: stands for the 50 of range(0, len(ids), 50) and
\* ids[i:i+50], scaled down so that lists of several chunks can be enumerated
BatchSize == 2
\* longest id list passed to get_videos_details / get_channel_details
MaxVideoList   == 5
MaxChannelList == 4

\* how .execute() of a detail request can end: with a response, with the
\* HttpError the client library raises for a failed request, or with any other
\* exception (which "except HttpError" does not catch)
Outcomes == {"ok", "HttpError", "OtherError"}

\* the item the remote API serves for an id
VideoItem(vid)   == [id |-> vid, channelId |-> ChannelOf(vid)]
ChannelItem(cid) == [id |-> cid]

\* number of iterations of range(0, n, BatchSize)
NumChunks(n) == (n + BatchSize - 1) \div BatchSize

\* ids[i:i+50], i counted from 0
BatchAtUnbounded(ids, i) == SubSeq(ids, i + 1, Len(ids))
BatchAt(ids, i) == SubSeq(ids, i + 1, Min(i + BatchSize, Len(ids)))

\* [vid for vid in batch_ids if vid not in self.video_cache]
UncachedIdsAll(batch_ids, cache) == batch_ids
UncachedIds(batch_ids, cache) ==
    SelectSeq(batch_ids, LAMBDA id : id \notin DOMAIN cache)

\* for item in response.get('items', []): cache[item['id']] = item
\* the response holds one item per requested id the remote has
CacheUpdate(cache, requested, remote, Item(_)) ==
    LET fetched == Range(requested) \cap remote
    IN  [id \in DOMAIN cache \cup fetched |->
            IF id \in fetched THEN Item(id) ELSE cache[id]]

\* an exception of the request leaves the try block of the call uncaught
PropagatesAny(outcome) == outcome # "ok"
Propagates(outcome) == outcome = "OtherError"

\* for video_id in batch_ids: if video_id in self.video_cache: append(cache[video_id])
ChunkResultFetchedOnly(batch_ids, cache_before, cache_after) ==
    LET kept == SelectSeq(batch_ids, LAMBDA id : id \in DOMAIN cache_after
                                                /\ id \notin DOMAIN cache_before)
    IN  [k \in DOMAIN kept |-> cache_after[kept[k]]]
ChunkResultFetchedFirst(batch_ids, cache_before, cache_after) ==
    LET new == SelectSeq(batch_ids, LAMBDA id : id \in DOMAIN cache_after
                                               /\ id \notin DOMAIN cache_before)
        old == SelectSeq(batch_ids, LAMBDA id : id \in DOMAIN cache_before)
        kept == new \o old
    IN  [k \in DOMAIN kept |-> cache_after[kept[k]]]
ChunkResult(batch_ids, cache_before, cache_after) ==
    LET kept == SelectSeq(batch_ids, LAMBDA id : id \in DOMAIN cache_after)
    IN  [k \in DOMAIN kept |-> cache_after[kept[k]]]

\* the loop of get_videos_details from offset i on; st is the state of the
\* call: [cache, videos_data, chunks, raised]; outcomes[k] is how the request of
\* the k-th chunk ends if one is made.  chunks records, per iteration, the
\* batch, the ids requested (<<>> for no request), how the request ended, the
\* ids cached before it and what the iteration appended to videos_data.
RECURSIVE VideosLoop(_, _, _, _, _)
VideosLoop(video_ids, i, outcomes, remote, st) ==
    IF i >= Len(video_ids) THEN st
    ELSE
      LET batch_ids    == BatchAt(video_ids, i)
          uncached_ids == UncachedIds(batch_ids, st.cache)
          outcome      == IF uncached_ids = <<>> THEN "none"
                          ELSE outcomes[(i \div BatchSize) + 1]
          cache1       == IF outcome = "ok"
                          THEN CacheUpdate(st.cache, uncached_ids, remote, VideoItem)
                          ELSE st.cache
          appended     == ChunkResult(batch_ids, st.cache, cache1)
          chunk        == [ batch     |-> batch_ids,
                            request   |-> uncached_ids,
                            outcome   |-> outcome,
                            cached    |-> DOMAIN st.cache,
                            appended  |-> IF Propagates(outcome) THEN <<>> ELSE appended ]
      IN  IF outcome # "none" /\ Propagates(outcome)
          THEN [st EXCEPT !.chunks = Append(@, chunk), !.raised = TRUE]
          ELSE VideosLoop(video_ids, i + BatchSize, outcomes, remote,
                          [ cache       |-> cache1,
                            videos_data |-> st.videos_data \o appended,
                            chunks      |-> Append(st.chunks, chunk),
                            raised      |-> FALSE ])

\* the whole of get_videos_details(video_ids)
GetVideosDetails ==
    /\ last_call.op = "none"
    /\ \E video_ids \in SeqUpTo(VideoIds, MaxVideoList),
          outcomes \in [1..NumChunks(MaxVideoList) -> Outcomes] :
        LET st0 == [cache |-> video_cache, videos_data |-> <<>>,
                    chunks |-> <<>>, raised |-> FALSE]
            st  == IF video_ids = <<>> THEN st0
                   ELSE VideosLoop(video_ids, 0, outcomes, remote_videos, st0)
        IN  /\ video_cache' = st.cache
            /\ last_call' = [ op           |-> "get_videos_details",
                              input        |-> video_ids,
                              cache_before |-> video_cache,
                              chunks       |-> st.chunks,
                              raised       |-> st.raised,
                              result       |-> IF st.raised THEN <<>> ELSE st.videos_data ]
            /\ UNCHANGED << remote_videos, remote_channels, channel_cache >>
            /\ UNCHANGED fmtVars
            /\ UNCHANGED paceVars
            /\ UNCHANGED durVars
            /\ UNCHANGED runVars
            /\ UNCHANGED writerVars
            /\ UNCHANGED sheetVars

\* list(set(channel_ids)): the distinct ids, in an order the set decides
Orderings(S) ==
    { o \in [1..Cardinality(S) -> S] : \A a, b \in DOMAIN o : a # b => o[a] # o[b] }

\* {cid: cache.get(cid) for cid in unique_channel_ids if cid in cache}
ChannelResultWholeCache(unique_channel_ids, cache) == cache
ChannelResult(unique_channel_ids, cache) ==
    [cid \in Range(unique_channel_ids) \cap DOMAIN cache |-> cache[cid]]

\* the loop of get_channel_details over the uncached ids from offset i on;
\* st is [cache, chunks, raised]
RECURSIVE ChannelsLoop(_, _, _, _, _)
ChannelsLoop(uncached_channels, i, outcomes, remote, st) ==
    IF i >= Len(uncached_channels) THEN st
    ELSE
      LET batch_ids == BatchAt(uncached_channels, i)
          outcome   == outcomes[(i \div BatchSize) + 1]
          cache1    == IF outcome = "ok"
                       THEN CacheUpdate(st.cache, batch_ids, remote, ChannelItem)
                       ELSE st.cache
          chunk     == [ batch    |-> batch_ids,
                         request  |-> batch_ids,
                         outcome  |-> outcome,
                         cached   |-> DOMAIN st.cache,
                         appended |-> <<>> ]
      IN  IF Propagates(outcome)
          THEN [st EXCEPT !.chunks = Append(@, chunk), !.raised = TRUE]
          ELSE ChannelsLoop(uncached_channels, i + BatchSize, outcomes, remote,
                            [ cache  |-> cache1,
                              chunks |-> Append(st.chunks, chunk),
                              raised |-> FALSE ])

\* the whole of get_channel_details(channel_ids)
GetChannelDetails ==
    /\ last_call.op = "none"
    /\ \E channel_ids \in SeqUpTo(ChannelIds, MaxChannelList),
          outcomes \in [1..NumChunks(MaxChannelList) -> Outcomes] :
        \E unique_channel_ids \in Orderings(Range(channel_ids)) :
        LET uncached_channels == UncachedIds(unique_channel_ids, channel_cache)
            st0 == [cache |-> channel_cache, chunks |-> <<>>, raised |-> FALSE]
            st  == IF channel_ids = <<>> THEN st0
                   ELSE ChannelsLoop(uncached_channels, 0, outcomes, remote_channels, st0)
        IN  /\ channel_cache' = st.cache
            /\ last_call' = [ op           |-> "get_channel_details",
                              input        |-> channel_ids,
                              cache_before |-> channel_cache,
                              chunks       |-> st.chunks,
                              raised       |-> st.raised,
                              result       |-> IF st.raised \/ channel_ids = <<>> THEN <<>>
                                               ELSE ChannelResult(unique_channel_ids, st.cache) ]
            /\ UNCHANGED << remote_videos, remote_channels, video_cache >>
            /\ UNCHANGED fmtVars
            /\ UNCHANGED paceVars
            /\ UNCHANGED durVars
            /\ UNCHANGED runVars
            /\ UNCHANGED writerVars
            /\ UNCHANGED sheetVars

\* the call returns to its caller (or the exception leaves it); the client is
\* ready for the next call, its caches as the call left them
NoCall == [ op |-> "none", input |-> <<>>, cache_before |-> <<>>,
            chunks |-> <<>>, raised |-> FALSE, result |-> <<>> ]

ReturnToCaller ==
    /\ last_call.op # "none"
    /\ last_call' = NoCall
    /\ UNCHANGED << remote_videos, remote_channels, video_cache, channel_cache >>
    /\ UNCHANGED fmtVars
    /\ UNCHANGED paceVars
    /\ UNCHANGED durVars
    /\ UNCHANGED runVars
    /\ UNCHANGED writerVars
    /\ UNCHANGED sheetVars

ClientIdle ==
    /\ remote_videos = {}
    /\ remote_channels = {}
    /\ video_cache = <<>>
    /\ channel_cache = <<>>
    /\ last_call = NoCall

(***************************************************************************)
(* GoogleSheetsManager: the video_history log and get_previous_stats       *)
(***************************************************************************)
\* longest log drawn (data rows)
MaxRows == 3

\* headers = ['video_id', 'view_count', 'date']
Headers == << "video_id", "view_count", "date" >>

\* the day-granular dates update_video_history writes (strftime('%Y-%m-%d'))
DateStrings == {"2024-01-01", "2024-01-02", "2024-01-03"}

\* pd.to_datetime of a date string: the day it names, counted from 1970-01-01
ToDatetime(date) ==
    CASE date = "2024-01-01" -> 19723
      [] date = "2024-01-02" -> 19724
      [] date = "2024-01-03" -> 19725

LogViewCounts == {10, 40}
LogVideoIds   == {"v1", "v2"}

\* the data rows update_video_history appends
LogRows ==
    { [video_id |-> v, view_count |-> c, date |-> d] :
        v \in LogVideoIds, c \in LogViewCounts, d \in DateStrings }

\* the sheet operations of a call that can raise (an API or auth error); at
\* most the first failure of a call matters, since it ends the call
SheetOps == {"worksheet", "add_worksheet", "append_row", "get_all_records",
             "append_rows", "clear", "set_with_dataframe"}

\* "except Exception as e: logger.error(...)" around the body of each of the
\* three operations: whether the failure of a sheet operation leaves the call
\* as an exception
SheetErrorRaisedUncaught(failed) == failed # "none"
SheetErrorRaised(failed) == FALSE

\* df.sort_values('date'): the orders of the rows (as positions of the log) that
\* are ascending by date.  The default sort is not stable, so rows of one date
\* come out in any order.
SortedByDate(rows) ==
    { o \in [1..Len(rows) -> 1..Len(rows)] :
        /\ \A a, b \in 1..Len(rows) : a # b => o[a] # o[b]
        /\ \A a, b \in 1..Len(rows) :
              a < b => ToDatetime(rows[o[a]].date) <= ToDatetime(rows[o[b]].date) }

\* drop_duplicates('video_id', keep='last') on the rows taken in the order o:
\* the position in o of the row kept for a video id
KeptFirst(rows, o, vid) ==
    CHOOSE a \in 1..Len(rows) :
        /\ rows[o[a]].video_id = vid
        /\ \A b \in 1..Len(rows) : rows[o[b]].video_id = vid => b >= a
KeptLast(rows, o, vid) ==
    CHOOSE a \in 1..Len(rows) :
        /\ rows[o[a]].video_id = vid
        /\ \A b \in 1..Len(rows) : rows[o[b]].video_id = vid => b <= a

\* stats_dict built from latest_records
StatsDict(rows, o) ==
    [ vid \in {rows[k].video_id : k \in DOMAIN rows} |->
        LET row == rows[o[KeptLast(rows, o, vid)]]
        IN  [viewCount |-> row.view_count, date |-> ToDatetime(row.date)] ]

NoSheetCall ==
    [ op |-> "none", input |-> <<>>, failed |-> "none", raised |-> FALSE,
      result |-> <<>>, before |-> <<>> ]

\* "if 'date' in df.columns and 'video_id' in df.columns"
HasRequiredColumnsUnchecked(header) == TRUE
HasRequiredColumns(header) == {"date", "video_id"} \subseteq Range(header)

\* the record of a call that has run
SheetCall(op, input, failed, result) ==
    [ op |-> op, input |-> input, failed |-> failed,
      raised |-> SheetErrorRaised(failed), result |-> result,
      before |-> [history |-> history, current_data |-> current_data] ]

\* the sheet operations a call can find failing
PreviousStatsFailures ==
    {"none", "worksheet", "add_worksheet", "append_row", "get_all_records"}
HistoryFailures ==
    {"none", "worksheet", "add_worksheet", "append_row", "append_rows"}
CurrentDataFailures ==
    {"none", "worksheet", "add_worksheet", "clear", "set_with_dataframe"}

\* the body of get_previous_stats; failing names the sheet operation that
\* raises if the call gets to it
GetPreviousStatsCall(failing) ==
    LET done(failed, result) ==
            sheet_call' = SheetCall("get_previous_stats", <<>>, failed, result)
    IN  IF failing = "worksheet"
        THEN done("worksheet", <<>>) /\ UNCHANGED history
        ELSE IF ~history.exists
        THEN \* WorksheetNotFound: create the sheet, write the header, return {}
             IF failing = "add_worksheet"
             THEN done("add_worksheet", <<>>) /\ UNCHANGED history
             ELSE IF failing = "append_row"
             THEN /\ done("append_row", <<>>)
                  /\ history' = [exists |-> TRUE, header |-> <<>>, rows |-> <<>>]
             ELSE /\ done("none", <<>>)
                  /\ history' = [exists |-> TRUE, header |-> Headers, rows |-> <<>>]
        ELSE IF failing \in {"add_worksheet", "append_row"}
        THEN FALSE   \* not reached on an existing sheet
        ELSE IF failing = "get_all_records"
        THEN done("get_all_records", <<>>) /\ UNCHANGED history
        ELSE IF history.rows = <<>> \/ history.header = <<>>
        THEN \* no records, or records keyed by the cells of a first data row
             done("none", <<>>) /\ UNCHANGED history
        ELSE IF ~HasRequiredColumns(history.header)
        THEN done("none", <<>>) /\ UNCHANGED history
        ELSE IF "view_count" \notin Range(history.header)
        THEN \* row['view_count'] raises KeyError, caught by the outer except
             done("none", <<>>) /\ UNCHANGED history
        ELSE /\ \E o \in SortedByDate(history.rows) :
                    done("none", StatsDict(history.rows, o))
             /\ UNCHANGED history

\* the whole of get_previous_stats
GetPreviousStats ==
    /\ sheet_call.op = "none"
    /\ \E failing \in PreviousStatsFailures : GetPreviousStatsCall(failing)
    /\ UNCHANGED << current_data, today >>
    /\ UNCHANGED fmtVars
    /\ UNCHANGED paceVars
    /\ UNCHANGED durVars
    /\ UNCHANGED runVars
    /\ UNCHANGED writerVars
    /\ UNCHANGED clientVars

\* longest log the runs of SpecHistory build
MaxLog == 2

\* the formatted videos passed to the updates (the columns the log keeps)
SheetVideos ==
    { r \in [video_id : LogVideoIds, view_count : LogViewCounts] :
        r.video_id = "v1" \/ r.view_count = 40 }

\* new_rows: one row per video, dated current_date
NewRowsFirstOnly(videos_data, current_date) ==
    IF videos_data = <<>> THEN <<>>
    ELSE << [ video_id   |-> videos_data[1].video_id,
              view_count |-> videos_data[1].view_count,
              date       |-> current_date ] >>
NewRows(videos_data, current_date) ==
    [ k \in DOMAIN videos_data |->
        [ video_id   |-> videos_data[k].video_id,
          view_count |-> videos_data[k].view_count,
          date       |-> current_date ] ]

\* the body of update_video_history(videos_data)
UpdateVideoHistoryCall(videos_data, failing) ==
    LET done(failed) ==
            sheet_call' = SheetCall("update_video_history", videos_data, failed, <<>>)
        appended(h) == [h EXCEPT !.rows = @ \o NewRows(videos_data, today)]
    IN  IF videos_data = <<>>
        THEN \* "No video data to update": return before any sheet operation
             failing = "none" /\ done("none") /\ UNCHANGED history
        ELSE IF failing = "worksheet"
        THEN done("worksheet") /\ UNCHANGED history
        ELSE IF ~history.exists
        THEN IF failing = "add_worksheet"
             THEN done("add_worksheet") /\ UNCHANGED history
             ELSE IF failing = "append_row"
             THEN /\ done("append_row")
                  /\ history' = [exists |-> TRUE, header |-> <<>>, rows |-> <<>>]
             ELSE IF failing = "append_rows"
             THEN /\ done("append_rows")
                  /\ history' = [exists |-> TRUE, header |-> Headers, rows |-> <<>>]
             ELSE /\ done("none")
                  /\ history' = appended([exists |-> TRUE, header |-> Headers,
                                          rows |-> <<>>])
        ELSE IF failing \in {"add_worksheet", "append_row"}
        THEN FALSE   \* not reached on an existing sheet
        ELSE IF failing = "append_rows"
        THEN done("append_rows") /\ UNCHANGED history
        ELSE done("none") /\ history' = appended(history)

\* the whole of update_video_history(videos_data)
UpdateVideoHistory ==
    /\ sheet_call.op = "none"
    /\ \E videos_data \in SeqUpTo(SheetVideos, MaxBatch), failing \in HistoryFailures :
        /\ Len(history.rows) + Len(videos_data) <= MaxLog
        /\ UpdateVideoHistoryCall(videos_data, failing)
    /\ UNCHANGED << current_data, today >>
    /\ UNCHANGED fmtVars
    /\ UNCHANGED paceVars
    /\ UNCHANGED durVars
    /\ UNCHANGED runVars
    /\ UNCHANGED writerVars
    /\ UNCHANGED clientVars

\* set_with_dataframe(current_sheet, df) on the cleared sheet: the rows of the
\* batch; before it, current_sheet.clear() has emptied the sheet
WrittenTableAppended(old_rows, videos_data) == old_rows \o videos_data
WrittenTable(old_rows, videos_data) == videos_data

\* the body of update_current_data(videos_data)
UpdateCurrentDataCall(videos_data, failing) ==
    LET done(failed) ==
            sheet_call' = SheetCall("update_current_data", videos_data, failed, <<>>)
    IN  IF videos_data = <<>>
        THEN failing = "none" /\ done("none") /\ UNCHANGED current_data
        ELSE IF failing = "worksheet"
        THEN done("worksheet") /\ UNCHANGED current_data
        ELSE IF ~current_data.exists /\ failing = "add_worksheet"
        THEN done("add_worksheet") /\ UNCHANGED current_data
        ELSE IF current_data.exists /\ failing = "add_worksheet"
        THEN FALSE   \* not reached on an existing sheet
        ELSE IF failing = "clear"
        THEN /\ done("clear")
             /\ current_data' = [exists |-> TRUE, rows |-> current_data.rows]
        ELSE IF failing = "set_with_dataframe"
        THEN /\ done("set_with_dataframe")
             /\ current_data' = [exists |-> TRUE, rows |-> <<>>]
        ELSE /\ done("none")
             /\ current_data' =
                   [exists |-> TRUE,
                    rows |-> WrittenTable(current_data.rows, videos_data)]

\* the whole of update_current_data(videos_data)
UpdateCurrentData ==
    /\ sheet_call.op = "none"
    /\ \E videos_data \in SeqUpTo(SheetVideos, MaxBatch), failing \in CurrentDataFailures :
        UpdateCurrentDataCall(videos_data, failing)
    /\ UNCHANGED << history, today >>
    /\ UNCHANGED fmtVars
    /\ UNCHANGED paceVars
    /\ UNCHANGED durVars
    /\ UNCHANGED runVars
    /\ UNCHANGED writerVars
    /\ UNCHANGED clientVars

\* the call returns to the run that made it
ReturnFromSheets ==
    /\ sheet_call.op # "none"
    /\ sheet_call' = NoSheetCall
    /\ UNCHANGED << history, current_data, today >>
    /\ UNCHANGED fmtVars
    /\ UNCHANGED paceVars
    /\ UNCHANGED durVars
    /\ UNCHANGED runVars
    /\ UNCHANGED writerVars
    /\ UNCHANGED clientVars

\* the day after a date, if the model has one
HasNextDay(date) == date # "2024-01-03"
NextDay(date) == IF date = "2024-01-01" THEN "2024-01-02" ELSE "2024-01-03"

\* midnight passes between two calls
DayPasses ==
    /\ sheet_call.op = "none"
    /\ HasNextDay(today)
    /\ today' = NextDay(today)
    /\ UNCHANGED << history, current_data, sheet_call >>
    /\ UNCHANGED fmtVars
    /\ UNCHANGED paceVars
    /\ UNCHANGED durVars
    /\ UNCHANGED runVars
    /\ UNCHANGED writerVars
    /\ UNCHANGED clientVars

SheetsIdle ==
    /\ history = [exists |-> FALSE, header |-> <<>>, rows |-> <<>>]
    /\ current_data = [exists |-> FALSE, rows |-> <<>>]
    /\ today = "2024-01-01"
    /\ sheet_call = NoSheetCall

(***************************************************************************)
(* ChannelAnalyzer: the posting pace of a channel                          *)
(***************************************************************************)
\* most publish timestamps of one channel drawn
MaxDates == 4

\* publish timestamps, in hours since the oldest
PublishTimes == {0, 6, 24, 54, 96, 14520}

\* publish_dates.sort(reverse=True): the insertion of one date into a list
\* that is sorted newest first
RECURSIVE InsertNewestFirst(_, _)
InsertNewestFirst(sorted, d) ==
    IF sorted = <<>> THEN << d >>
    ELSE IF d >= Head(sorted) THEN << d >> \o sorted
    ELSE << Head(sorted) >> \o InsertNewestFirst(Tail(sorted), d)

RECURSIVE SortedNewestFirstFrom(_, _)
SortedNewestFirstFrom(dates, sorted) ==
    IF dates = <<>> THEN sorted
    ELSE SortedNewestFirstFrom(Tail(dates), InsertNewestFirst(sorted, Head(dates)))

Unsorted(dates) == dates
SortedNewestFirst(dates) == SortedNewestFirstFrom(dates, <<>>)

\* (publish_dates[i] - publish_dates[i+1]).days: timedelta.days is the floor
\* of the difference in days
Intervals(dates) ==
    [i \in 1..(Len(dates) - 1) |-> (dates[i] - dates[i + 1]) \div 24]

RECURSIVE Sum(_)
Sum(seq) == IF seq = <<>> THEN 0 ELSE Head(seq) + Sum(Tail(seq))

\* round(num / den, 1) for den > 0, in tenths; an exactly representable tie
\* (as every tie over the timestamps above is) goes to the even tenth
Round1(num, den) ==
    LET q == (10 * num) \div den
        r == (10 * num) % den
    IN  IF 2 * r < den THEN q
        ELSE IF 2 * r > den THEN q + 1
        ELSE IF q % 2 = 0 THEN q ELSE q + 1

\* details['posting_pace'] for at least two parsed timestamps; both fields in
\* tenths.  avg_interval is total / count, and max(avg_interval, 1) is 1 when
\* total <= count
PostingPace(dates) ==
    LET intervals == Intervals(SortedNewestFirst(dates))
        total     == Sum(intervals)
        count     == Len(intervals)
    IN  [ avg_days_between_videos |-> Round1(total, count),
          videos_per_month        |-> IF total <= count THEN Round1(30, 1)
                                      ELSE Round1(30 * count, total) ]

\* lines 79-91 of fetch_channel_stats on the timestamps drawn
ComputePostingPace ==
    /\ posting_pace = <<>>
    /\ Len(publish_dates) >= 2
    /\ posting_pace' = << PostingPace(publish_dates) >>
    /\ UNCHANGED publish_dates
    /\ UNCHANGED fmtVars
    /\ UNCHANGED clientVars
    /\ UNCHANGED sheetVars
    /\ UNCHANGED durVars
    /\ UNCHANGED runVars
    /\ UNCHANGED writerVars

PaceIdle ==
    /\ publish_dates = <<>>
    /\ posting_pace = <<>>

(***************************************************************************)
(* ChannelAnalyzer.fetch_channel_stats on a YouTubeDataAPI client          *)
(***************************************************************************)
\* most channel ids passed to one fetch_channel_stats
MaxAnalyzed == 2

\* get_latest_videos_for_channel(channel_id, 5)
MaxResults == 5

\* the uploads of the channels analysed, newest first: c1 has one video, c2
\* and c3 have two
AnalyzedVideoIds == VideoIds \cup {"v4", "v5"}
ChannelVideos(channel_id) ==
    CASE channel_id = "c1" -> << "v1" >>
      [] channel_id = "c2" -> << "v2", "v3" >>
      [] channel_id = "c3" -> << "v4", "v5" >>

\* video.get('snippet', {}).get('publishedAt') through date_parse, in hours:
\* <<>> for a timestamp that is missing or that date_parse rejects (v5)
PublishedAt(video) ==
    CASE video.id = "v1" -> << 6 >>
      [] video.id = "v2" -> << 96 >>
      [] video.id = "v3" -> << 24 >>
      [] video.id = "v4" -> << 54 >>
      [] video.id = "v5" -> <<>>

\* video.get('statistics', {}).get('viewCount', 0): a number, or the decimal
\* text in which the API sends counts (v1); likeCount and commentCount are
\* not in the items
ViewCount(video) ==
    CASE video.id = "v1" -> [type |-> "str", value |-> 150]
      [] video.id = "v2" -> [type |-> "int", value |-> 80]
      [] video.id = "v3" -> [type |-> "int", value |-> 150]
      [] video.id = "v4" -> [type |-> "int", value |-> 500]
      [] video.id = "v5" -> [type |-> "int", value |-> 80]

\* how the search and the detail requests of one latest-video lookup end (a
\* search that raises makes no detail request)
Lookups ==
    { l \in [search : Outcomes, details : Outcomes] :
        l.search # "ok" => l.details = "ok" }

\* the whole of get_latest_videos_for_channel: [cache, videos, raised]
GetLatestVideosForChannel(channel_id, lookup, remote, cache) ==
    LET found     == SelectSeq(ChannelVideos(channel_id), LAMBDA v : v \in remote)
        video_ids == SubSeq(found, 1, Min(MaxResults, Len(found)))
        st0 == [cache |-> cache, videos_data |-> <<>>, chunks |-> <<>>, raised |-> FALSE]
        st  == VideosLoop(video_ids, 0,
                          [k \in 1..NumChunks(MaxResults) |-> lookup.details],
                          remote, st0)
    IN  IF lookup.search = "HttpError"
        THEN [cache |-> cache, videos |-> <<>>, raised |-> FALSE]
        ELSE IF lookup.search = "OtherError"
        THEN [cache |-> cache, videos |-> <<>>, raised |-> TRUE]
        ELSE IF video_ids = <<>>
        THEN [cache |-> cache, videos |-> <<>>, raised |-> FALSE]
        ELSE [cache |-> st.cache, videos |-> st.videos_data, raised |-> st.raised]

\* details[key] = value on a dict
With(details, key, value) ==
    [k \in DOMAIN details \cup {key} |-> IF k = key THEN value ELSE details[k]]

\* the parsed publish timestamps of the videos that have one
RECURSIVE PublishDates(_)
PublishDates(latest_videos) ==
    IF latest_videos = <<>> THEN <<>>
    ELSE LET published_at == PublishedAt(Head(latest_videos))
         IN  published_at \o PublishDates(Tail(latest_videos))

\* sum(... for v in latest_videos ...) / max(len(latest_videos), 1), int() of it
AvgStats(latest_videos) ==
    [ avg_views    |-> Sum([k \in DOMAIN latest_videos |->
                                ViewCount(latest_videos[k]).value])
                          \div Max(Len(latest_videos), 1),
      avg_likes    |-> 0,
      avg_comments |-> 0 ]

\* 0 + '150' in the sum: TypeError
SumRaises(latest_videos) ==
    \E k \in DOMAIN latest_videos : ViewCount(latest_videos[k]).type = "str"

\* "if len(latest_videos) >= 2" and "if len(publish_dates) >= 2"
HasPace(latest_videos) ==
    Len(latest_videos) >= 2 /\ Len(PublishDates(latest_videos)) >= 2

\* the body of the loop of fetch_channel_stats for one channel, on the dict
\* that the cache holds: [details, raised]
AnalyzeChannel(details, latest_videos) ==
    IF latest_videos = <<>> THEN [details |-> details, raised |-> FALSE]
    ELSE LET d1 == With(details, "latest_videos", latest_videos)
             d2 == With(d1, "avg_stats", AvgStats(latest_videos))
             d3 == With(d2, "posting_pace", PostingPace(PublishDates(latest_videos)))
         IN  IF SumRaises(latest_videos) THEN [details |-> d1, raised |-> TRUE]
             ELSE IF HasPace(latest_videos) THEN [details |-> d3, raised |-> FALSE]
             ELSE [details |-> d2, raised |-> FALSE]

\* the loop of fetch_channel_stats over the channels of channel_details from
\* the k-th on; st is [video_cache, channel_cache, obtained, raised], obtained
\* the latest videos that this call got per channel
RECURSIVE FetchLoop(_, _, _, _, _)
FetchLoop(order, k, lookups, remote, st) ==
    IF k > Len(order) THEN st
    ELSE
      LET channel_id == order[k]
          latest     == GetLatestVideosForChannel(channel_id, lookups[channel_id],
                                                  remote, st.video_cache)
          analysed   == AnalyzeChannel(st.channel_cache[channel_id], latest.videos)
          obtained1  == With(st.obtained, channel_id, latest.videos)
      IN  IF latest.raised
          THEN [st EXCEPT !.video_cache = latest.cache, !.raised = TRUE]
          ELSE IF analysed.raised
          THEN [ video_cache   |-> latest.cache,
                 channel_cache |-> [st.channel_cache EXCEPT
                                        ![channel_id] = analysed.details],
                 obtained      |-> obtained1,
                 raised        |-> TRUE ]
          ELSE FetchLoop(order, k + 1, lookups, remote,
                 [ video_cache   |-> latest.cache,
                   channel_cache |-> [st.channel_cache EXCEPT
                                          ![channel_id] = analysed.details],
                   obtained      |-> obtained1,
                   raised        |-> FALSE ])

\* the whole of fetch_channel_stats(youtube_client, channel_ids); the dicts of
\* the returned map are the dicts of the client's channel cache
FetchChannelStats ==
    /\ last_call.op = "none"
    /\ \E channel_ids \in SeqUpTo(ChannelIds, MaxAnalyzed),
          outcomes \in [1..NumChunks(MaxAnalyzed) -> Outcomes] :
        \E unique_channel_ids \in Orderings(Range(channel_ids)),
           lookups \in [Range(channel_ids) -> Lookups] :
        LET uncached_channels == UncachedIds(unique_channel_ids, channel_cache)
            cd0 == [cache |-> channel_cache, chunks |-> <<>>, raised |-> FALSE]
            cd  == IF channel_ids = <<>> THEN cd0
                   ELSE ChannelsLoop(uncached_channels, 0, outcomes, remote_channels, cd0)
            channel_details == ChannelResult(unique_channel_ids, cd.cache)
            order == SelectSeq(unique_channel_ids, LAMBDA c : c \in DOMAIN channel_details)
            st0 == [ video_cache |-> video_cache, channel_cache |-> cd.cache,
                     obtained |-> <<>>, raised |-> cd.raised ]
            st  == IF channel_ids = <<>> \/ cd.raised THEN st0
                   ELSE FetchLoop(order, 1, lookups, remote_videos, st0)
        IN  /\ video_cache' = st.video_cache
            /\ channel_cache' = st.channel_cache
            /\ last_call' = [ op           |-> "fetch_channel_stats",
                              input        |-> channel_ids,
                              cache_before |-> channel_cache,
                              chunks       |-> cd.chunks,
                              raised       |-> FALSE,
                              failed       |-> st.raised,
                              obtained     |-> st.obtained,
                              result       |-> IF st.raised \/ channel_ids = <<>> THEN <<>>
                                               ELSE ChannelResult(unique_channel_ids,
                                                                  st.channel_cache) ]
            /\ UNCHANGED << remote_videos, remote_channels >>
            /\ UNCHANGED fmtVars
            /\ UNCHANGED paceVars
            /\ UNCHANGED durVars
            /\ UNCHANGED runVars
            /\ UNCHANGED writerVars
            /\ UNCHANGED sheetVars

(***************************************************************************)
(* YouTubeDataAPI._parse_duration                                          *)
(***************************************************************************)
\* a string is the sequence of its characters
Digits == {"0", "1", "2", "5"}

DigitValue(c) ==
    CASE c = "0" -> 0 [] c = "1" -> 1 [] c = "2" -> 2 [] c = "5" -> 5

\* int(text) of a string of decimal digits
RECURSIVE IntOf(_)
IntOf(text) ==
    IF text = <<>> THEN 0
    ELSE 10 * IntOf(SubSeq(text, 1, Len(text) - 1)) + DigitValue(text[Len(text)])

\* \d+ at position pos of str: the position after the longest run of digits
\* that starts there (pos itself if there is none)
RECURSIVE DigitsEnd(_, _)
DigitsEnd(str, pos) ==
    IF pos <= Len(str) /\ str[pos] \in Digits THEN DigitsEnd(str, pos + 1) ELSE pos

\* (?:(\d+)U)? at position pos: [text, next], the text of the group (<<>> if it
\* did not take part) and the position after what it matched
OptionalGroup(str, pos, unit) ==
    LET e == DigitsEnd(str, pos)
    IN  IF e > pos /\ e <= Len(str) /\ str[e] = unit
        THEN [text |-> SubSeq(str, pos, e - 1), next |-> e + 1]
        ELSE [text |-> <<>>, next |-> pos]

\* (int(hours) if hours else 0) * 3600 + ... * 60 + ...
TotalSecondsFlat(hours, minutes, seconds) ==
    IntOf(hours) * 60 + IntOf(minutes) * 60 + IntOf(seconds)
TotalSeconds(hours, minutes, seconds) ==
    IntOf(hours) * 3600 + IntOf(minutes) * 60 + IntOf(seconds)

\* re.match(r'PT(?:(\d+)H)?(?:(\d+)M)?(?:(\d+)S)?', duration_str): the match
\* is anchored at the start of the string only
ParseDuration(str) ==
    IF str = <<>> THEN 0
    ELSE IF ~(Len(str) >= 2 /\ str[1] = "P" /\ str[2] = "T") THEN 0
    ELSE LET h == OptionalGroup(str, 3, "H")
             m == OptionalGroup(str, h.next, "M")
             s == OptionalGroup(str, m.next, "S")
         IN  TotalSeconds(h.text, m.text, s.text)

\* the digit strings of the durations drawn
Numbers == { << "0" >>, << "1" >>, << "2" >>, << "2", "0" >>, << "0", "5" >>,
             << "1", "0", "0" >> }

\* a group of a duration: nothing, or a number and its unit
Group(number, unit) == IF number = <<>> THEN <<>> ELSE number \o << unit >>

\* the orders in which the three groups are written
UnitOrders == { << "H", "M", "S" >>, << "S", "M", "H" >>, << "M", "H", "S" >>,
                << "H", "S", "M" >> }

\* what the durations drawn start and end with
Prefixes == { << "P", "T" >>, << "P", "1", "D", "T" >>, << "T" >>, <<>> }
Suffixes == { <<>>, << "x", "y", "z" >> }

DurationStrings ==
    { p \o Group(n[1], o[1]) \o Group(n[2], o[2]) \o Group(n[3], o[3]) \o x :
        p \in Prefixes, o \in UnitOrders,
        n \in [1..3 -> Numbers \cup {<<>>}], x \in Suffixes }

\* the whole of _parse_duration(duration_str)
ParseDurationCall ==
    /\ duration_seconds = <<>>
    /\ duration_seconds' = << ParseDuration(duration_str) >>
    /\ UNCHANGED duration_str
    /\ UNCHANGED fmtVars
    /\ UNCHANGED clientVars
    /\ UNCHANGED sheetVars
    /\ UNCHANGED paceVars
    /\ UNCHANGED runVars
    /\ UNCHANGED writerVars

\* no call of _parse_duration
DurationIdle ==
    /\ duration_str = <<>>
    /\ duration_seconds = <<>>

(***************************************************************************)
(* One search run: the dashboard's search handler and generate_csv         *)
(***************************************************************************)

\* longest keyword list of a run, and the longest history log the runs build
MaxKeywords == 2
MaxRunLog   == 3

Keywords == {"k1", "k2", "k3"}

\* search_response['items'] for a query, as video ids: what the remote search
\* finds (nothing for k3)
Found(query) ==
    CASE query = "k1" -> << "v1", "v2" >>
      [] query = "k2" -> << "v3" >>
      [] OTHER        -> << >>

\* statistics.viewCount of a video on a day, statistics.subscriberCount of a
\* channel (c2 hides it)
RemoteViewCount(vid, date) ==
    CASE date = "2024-01-01" -> IF vid = "v1" THEN 80 ELSE 150
      [] date = "2024-01-02" -> IF vid = "v3" THEN 500 ELSE 150
      [] OTHER               -> 500
RemoteSubscriberCount(cid) == IF cid = "c2" THEN << >> ELSE << 8 >>

\* search_videos(query): the search request ends with outcome; the ids found
\* are returned, an HttpError is logged and [] returned, any other exception
\* leaves the call
SearchVideos(query, outcome) ==
    [ query   |-> query,
      outcome |-> outcome,
      raised  |-> Propagates(outcome),
      result  |-> IF outcome = "ok" THEN Found(query) ELSE << >> ]
NoSearch == [ query |-> "", outcome |-> "none", raised |-> FALSE, result |-> << >> ]

\* the previous_stats argument that a result of get_previous_stats makes
AsPreviousStats(result) ==
    [ isNone |-> FALSE,
      stats  |-> [vid \in DOMAIN result |-> [viewCount |-> << result[vid].viewCount >>]] ]

\* the items the detail calls return, as format_video_data reads them
VideoWithStatistics(item, date) ==
    [ id |-> item.id, channelId |-> item.channelId,
      viewCount |-> << RemoteViewCount(item.id, date) >> ]
ChannelsWithStatistics(channels) ==
    [ cid \in DOMAIN channels |-> [subscriberCount |-> RemoteSubscriberCount(cid)] ]

\* st.session_state.keywords_data[keyword] = {...}: a dict keeps the position
\* of the first insertion of a key
StoredLast(keywords_data, keyword, data) ==
    << [keyword |-> keyword, data |-> data] >> \o
    SelectSeq(keywords_data, LAMBDA e : e.keyword # keyword)
Stored(keywords_data, keyword, data) ==
    IF \E k \in DOMAIN keywords_data : keywords_data[k].keyword = keyword
    THEN [ k \in DOMAIN keywords_data |->
             IF keywords_data[k].keyword = keyword
             THEN [keyword |-> keyword, data |-> data] ELSE keywords_data[k] ]
    ELSE Append(keywords_data, [keyword |-> keyword, data |-> data])

\* keywords_data[next(iter(keywords_data))]['data']
MainDataOfLast(keywords_data) == keywords_data[Len(keywords_data)].data
MainData(keywords_data) == keywords_data[1].data

\* the keyword lists a search is submitted with
KeywordLists ==
    UNION { Orderings(S) : S \in { T \in SUBSET Keywords :
                                     T # {} /\ Cardinality(T) <= MaxKeywords } }

\* no run under way
NoRun ==
    [ pc |-> "idle", kind |-> "none", keywords |-> << >>, idx |-> 0,
      connected |-> FALSE, previous_stats |-> << >>, search |-> NoSearch,
      keywords_data |-> << >>, video_data |-> << >>, calls |-> << >>,
      log_before |-> << >>, ended |-> "" ]

RunIdle == run = NoRun

\* the sheet operation a call of the run can find failing
RunFailures == {"none", "worksheet"}

\* the start of a run up to the keyword loop: a new YouTubeDataAPI, then
\* GoogleSheetsManager() and get_previous_stats().  The dashboard goes on
\* without the spreadsheet when the manager cannot be built; generate_csv
\* lets the exception out.
RunStart ==
    /\ run.pc = "idle"
    /\ \E kind \in {"dashboard", "csv"},
          keywords \in KeywordLists,
          manager \in BOOLEAN :
        LET started == [ NoRun EXCEPT !.kind = kind, !.keywords = keywords,
                                      !.idx = 1, !.log_before = history.rows ]
        IN  /\ kind = "csv" => Len(keywords) = 1
            /\ \A k \in Range(keywords) :
                  Len(history.rows) + Len(Found(k)) <= MaxRunLog
            /\ IF manager
               THEN /\ \E failing \in RunFailures : GetPreviousStatsCall(failing)
                    /\ run' = [ started EXCEPT
                                  !.pc = "keywords",
                                  !.connected = TRUE,
                                  !.previous_stats = sheet_call'.result,
                                  !.calls = << "get_previous_stats" >> ]
               ELSE /\ run' = IF kind = "csv"
                              THEN [ started EXCEPT !.pc = "done", !.ended = "raised" ]
                              ELSE [ started EXCEPT !.pc = "keywords" ]
                    /\ UNCHANGED << history, sheet_call >>
    /\ video_cache' = << >>
    /\ channel_cache' = << >>
    /\ UNCHANGED << remote_videos, remote_channels, last_call >>
    /\ UNCHANGED << current_data, today >>
    /\ UNCHANGED fmtVars
    /\ UNCHANGED paceVars
    /\ UNCHANGED durVars
    /\ UNCHANGED writerVars

\* how a run ends when an exception leaves one of its client calls: the
\* dashboard's outer "except Exception" reports it, generate_csv re-raises
Failed(r) == [ r EXCEPT !.pc = "done",
                        !.ended = IF r.kind = "csv" THEN "raised" ELSE "error" ]

\* one iteration of the keyword loop (the body of generate_csv for its one
\* query): search, details, channels, format, store
RunKeyword ==
    /\ run.pc = "keywords"
    /\ run.idx <= Len(run.keywords)
    /\ \E search_outcome \in Outcomes,
          video_outcomes \in [1..NumChunks(Len(Found("k1"))) -> Outcomes],
          channel_outcome \in Outcomes :
        LET keyword   == run.keywords[run.idx]
            search    == SearchVideos(keyword, search_outcome)
            video_ids == search.result
            r1  == [ run EXCEPT !.idx = @ + 1, !.search = search,
                                !.calls = Append(@, "search_videos") ]
            vst == VideosLoop(video_ids, 0, video_outcomes, remote_videos,
                              [cache |-> video_cache, videos_data |-> << >>,
                               chunks |-> << >>, raised |-> FALSE])
            videos_data == vst.videos_data
            r2  == [ r1 EXCEPT !.calls = Append(@, "get_videos_details") ]
            channel_ids == [k \in DOMAIN videos_data |-> videos_data[k].channelId]
            r3  == [ r2 EXCEPT !.calls = Append(@, "get_channel_details") ]
        IN  IF search.raised
            THEN /\ run' = Failed(r1)
                 /\ UNCHANGED << video_cache, channel_cache >>
            ELSE IF video_ids = << >>
            THEN \* "if not video_ids": continue (generate_csv: return)
                 /\ run' = r1
                 /\ UNCHANGED << video_cache, channel_cache >>
            ELSE IF vst.raised
            THEN /\ run' = Failed(r2)
                 /\ video_cache' = vst.cache
                 /\ UNCHANGED channel_cache
            ELSE
              \E unique_channel_ids \in Orderings(Range(channel_ids)) :
                LET cst == IF channel_ids = << >>
                           THEN [cache |-> channel_cache, chunks |-> << >>, raised |-> FALSE]
                           ELSE ChannelsLoop(UncachedIds(unique_channel_ids, channel_cache),
                                             0, [k \in 1..NumChunks(MaxChannelList) |-> channel_outcome],
                                             remote_channels,
                                             [cache |-> channel_cache, chunks |-> << >>,
                                              raised |-> FALSE])
                    channels == IF channel_ids = << >> THEN << >>
                                ELSE ChannelResult(unique_channel_ids, cst.cache)
                    formatted == [ k \in DOMAIN videos_data |->
                                     FormatVideo(VideoWithStatistics(videos_data[k], today),
                                                 ChannelsWithStatistics(channels),
                                                 AsPreviousStats(run.previous_stats)) ]
                    r4 == [ r3 EXCEPT !.calls = Append(@, "format_video_data") ]
                IN  /\ video_cache' = vst.cache
                    /\ channel_cache' = cst.cache
                    /\ run' = IF cst.raised THEN Failed(r3)
                              ELSE IF formatted = << >> THEN r4
                              ELSE [ r4 EXCEPT !.keywords_data =
                                                  Stored(@, keyword, formatted) ]
    /\ UNCHANGED << remote_videos, remote_channels, last_call >>
    /\ UNCHANGED sheetVars
    /\ UNCHANGED fmtVars
    /\ UNCHANGED paceVars
    /\ UNCHANGED durVars
    /\ UNCHANGED writerVars

\* "if sheets_manager is not None": the log is updated first, then the
\* current table
StageAfterLoopCurrentOnly(connected) == IF connected THEN "current" ELSE "done"
StageAfterLoop(connected) == IF connected THEN "history" ELSE "done"

\* after the loop: nothing stored ends the run; else the data of the first
\* keyword stored become the main data, and go to the spreadsheet if the run
\* is connected to it
RunAfterLoop ==
    /\ run.pc = "keywords"
    /\ run.idx > Len(run.keywords)
    /\ run' = IF run.keywords_data = << >>
              THEN [ run EXCEPT !.pc = "done", !.ended = "no_results" ]
              ELSE [ run EXCEPT !.pc = StageAfterLoop(run.connected),
                                !.ended = IF run.connected THEN "" ELSE "completed",
                                !.video_data = MainData(run.keywords_data) ]
    /\ UNCHANGED clientVars
    /\ UNCHANGED sheetVars
    /\ UNCHANGED fmtVars
    /\ UNCHANGED paceVars
    /\ UNCHANGED durVars
    /\ UNCHANGED writerVars

\* sheets_manager.update_video_history(video_data)
RunUpdateHistory ==
    /\ run.pc = "history"
    /\ \E failing \in RunFailures : UpdateVideoHistoryCall(run.video_data, failing)
    /\ run' = [ run EXCEPT !.pc = "current",
                           !.calls = Append(@, "update_video_history") ]
    /\ UNCHANGED << current_data, today >>
    /\ UNCHANGED clientVars
    /\ UNCHANGED fmtVars
    /\ UNCHANGED paceVars
    /\ UNCHANGED durVars
    /\ UNCHANGED writerVars

\* sheets_manager.update_current_data(video_data)
RunUpdateCurrent ==
    /\ run.pc = "current"
    /\ \E failing \in RunFailures : UpdateCurrentDataCall(run.video_data, failing)
    /\ run' = [ run EXCEPT !.pc = "done", !.ended = "completed",
                           !.calls = Append(@, "update_current_data") ]
    /\ UNCHANGED << history, today >>
    /\ UNCHANGED clientVars
    /\ UNCHANGED fmtVars
    /\ UNCHANGED paceVars
    /\ UNCHANGED durVars
    /\ UNCHANGED writerVars

\* the handler returns: its client and its sheets manager are locals, gone
\* with it
RunEnd ==
    /\ run.pc = "done"
    /\ run' = NoRun
    /\ sheet_call' = NoSheetCall
    /\ video_cache' = << >>
    /\ channel_cache' = << >>
    /\ UNCHANGED << remote_videos, remote_channels, last_call >>
    /\ UNCHANGED << history, current_data, today >>
    /\ UNCHANGED fmtVars
    /\ UNCHANGED paceVars
    /\ UNCHANGED durVars
    /\ UNCHANGED writerVars

(***************************************************************************)
(* Two runs on one spreadsheet, step by step through their sheet operations *)
(***************************************************************************)

Writers == {"run1", "run2"}

\* the video_history worksheet as gspread sees it: whether it exists and the
\* rows of cells it holds, the header row being a row like any other
AbsentLog == [ exists |-> FALSE, cells |-> << >> ]
HeaderRow == [ header |-> Headers ]

\* the list a run passes to update_video_history
WriterVideos(w) ==
    IF w = "run1" THEN << [video_id |-> "v1", view_count |-> 10] >>
    ELSE << [video_id |-> "v2", view_count |-> 40] >>

\* spreadsheet.worksheet('video_history') finds the sheet
WorksheetFoundNever(sheet) == FALSE
WorksheetFound(sheet) == sheet.exists

\* a run before its first sheet operation
NotStarted == [ pc |-> "start", overlapped |-> FALSE, rows |-> << >>, lost |-> FALSE ]

\* the other run is between its first and its last sheet operation
OtherUnderWay(w) ==
    \E o \in Writers \ {w} : writers[o].pc \notin {"start", "done"}

\* the step of run w to position pc
Step(w, pc) ==
    [ writers EXCEPT ![w].pc = pc,
                     ![w].overlapped = @ \/ OtherUnderWay(w) ]

WriterFrame ==
    /\ UNCHANGED fmtVars
    /\ UNCHANGED clientVars
    /\ UNCHANGED sheetVars
    /\ UNCHANGED paceVars
    /\ UNCHANGED durVars
    /\ UNCHANGED runVars

\* the run reaches get_previous_stats with the data it will log later
WriterStart ==
    \E w \in Writers :
        /\ writers[w].pc = "start"
        /\ writers' = [ Step(w, "stats_worksheet") EXCEPT
                          ![w].rows = NewRows(WriterVideos(w), today) ]
        /\ UNCHANGED log_sheet
        /\ WriterFrame

\* history_sheet = self.spreadsheet.worksheet('video_history'), in
\* get_previous_stats and in update_video_history
Worksheet ==
    \E w \in Writers :
        /\ writers[w].pc \in {"stats_worksheet", "history_worksheet"}
        /\ writers' =
             IF writers[w].pc = "stats_worksheet"
             THEN Step(w, IF WorksheetFound(log_sheet) THEN "stats_records"
                          ELSE "stats_add")
             ELSE Step(w, IF WorksheetFound(log_sheet) THEN "history_rows"
                          ELSE "history_add")
        /\ UNCHANGED log_sheet
        /\ WriterFrame

\* self.spreadsheet.add_worksheet(title='video_history', ...): the API
\* refuses a second sheet of the same title, and the "except Exception" of
\* the operation ends the call (get_previous_stats returns {},
\* update_video_history appends nothing)
AddWorksheet ==
    \E w \in Writers :
        /\ writers[w].pc \in {"stats_add", "history_add"}
        /\ IF log_sheet.exists
           THEN /\ writers' =
                     IF writers[w].pc = "stats_add"
                     THEN Step(w, "history_worksheet")
                     ELSE [ Step(w, "done") EXCEPT ![w].lost = TRUE ]
                /\ UNCHANGED log_sheet
           ELSE /\ writers' = Step(w, IF writers[w].pc = "stats_add"
                                      THEN "stats_header" ELSE "history_header")
                /\ log_sheet' = [ exists |-> TRUE, cells |-> << >> ]
        /\ WriterFrame

\* history_sheet.append_row(headers): the row goes after the last row of the
\* sheet
AppendRow ==
    \E w \in Writers :
        /\ writers[w].pc \in {"stats_header", "history_header"}
        /\ log_sheet' = [ log_sheet EXCEPT !.cells = Append(@, HeaderRow) ]
        /\ writers' = Step(w, IF writers[w].pc = "stats_header"
                              THEN "history_worksheet" ELSE "history_rows")
        /\ WriterFrame

\* all_data = history_sheet.get_all_records(): a read; the run goes on to
\* format its videos and to update_video_history
GetAllRecords ==
    \E w \in Writers :
        /\ writers[w].pc = "stats_records"
        /\ writers' = Step(w, "history_worksheet")
        /\ UNCHANGED log_sheet
        /\ WriterFrame

\* history_sheet.append_rows(new_rows)
AppendRows ==
    \E w \in Writers :
        /\ writers[w].pc = "history_rows"
        /\ log_sheet' = [ log_sheet EXCEPT !.cells = @ \o writers[w].rows ]
        /\ writers' = Step(w, "done")
        /\ WriterFrame

\* no two runs on one spreadsheet
WritersIdle ==
    /\ log_sheet = << >>
    /\ writers = << >>

FormatIdle ==
    /\ videos = <<>>
    /\ channels_data = <<>>
    /\ previous_stats = [isNone |-> TRUE, stats |-> <<>>]
    /\ formatted_data = <<>>
    /\ fmt_pc = "idle"

InitFormat ==
    /\ videos \in SeqUpTo(FmtVideoItems, MaxBatch)
    /\ channels_data \in ChannelMaps
    /\ previous_stats \in PrevStats
    /\ formatted_data = <<>>
    /\ fmt_pc = "input"
    /\ ClientIdle
    /\ SheetsIdle
    /\ PaceIdle
    /\ DurationIdle
    /\ RunIdle
    /\ WritersIdle

NextFormat == FormatVideoData

SpecFormat == InitFormat /\ [][NextFormat]_vars

\* the client after __init__: both caches empty.  The remote API has an item
\* for v1 and v2, and for v3 or not; it has c1 and c2 and no c3.
Init ==
    /\ remote_videos \in {{"v1", "v2"}, VideoIds}
    /\ remote_channels = {"c1", "c2"}
    /\ video_cache = <<>>
    /\ channel_cache = <<>>
    /\ last_call = NoCall
    /\ FormatIdle
    /\ PaceIdle
    /\ DurationIdle
    /\ RunIdle
    /\ WritersIdle
    /\ SheetsIdle

Next ==
    \/ GetVideosDetails
    \/ GetChannelDetails
    \/ ReturnToCaller

Spec == Init /\ [][Next]_vars

\* the spreadsheet before a call: no history log, a log whose header write
\* failed, or a log with its header (whole, or lacking a column) and
\* the rows earlier runs appended
InitSheets ==
    /\ history \in
          { [exists |-> FALSE, header |-> <<>>, rows |-> <<>>],
            [exists |-> TRUE, header |-> <<>>, rows |-> <<>>] }
          \cup { [exists |-> TRUE, header |-> h, rows |-> r] :
                   h \in {Headers, << "video_id", "view_count" >>,
                          << "video_id", "date" >>, << "view_count", "date" >>},
                   r \in SeqUpTo(LogRows, MaxRows) }
    /\ current_data = [exists |-> FALSE, rows |-> <<>>]
    /\ today = "2024-01-01"
    /\ sheet_call = NoSheetCall
    /\ FormatIdle
    /\ PaceIdle
    /\ DurationIdle
    /\ RunIdle
    /\ WritersIdle
    /\ ClientIdle

NextSheets == GetPreviousStats

SpecSheets == InitSheets /\ [][NextSheets]_vars

\* a client after __init__ on which channels are analysed; the remote API has
\* the three channels and their uploads, with or without v3
InitChannels ==
    /\ remote_videos \in {AnalyzedVideoIds, AnalyzedVideoIds \ {"v3"}}
    /\ remote_channels = ChannelIds
    /\ video_cache = <<>>
    /\ channel_cache = <<>>
    /\ last_call = NoCall
    /\ FormatIdle
    /\ SheetsIdle
    /\ PaceIdle
    /\ DurationIdle
    /\ RunIdle
    /\ WritersIdle

NextChannels ==
    \/ FetchChannelStats
    \/ ReturnToCaller

SpecChannels == InitChannels /\ [][NextChannels]_vars

\* the posting pace of every list of at least two publish timestamps
InitCadence ==
    /\ publish_dates \in { d \in SeqUpTo(PublishTimes, MaxDates) : Len(d) >= 2 }
    /\ posting_pace = <<>>
    /\ FormatIdle
    /\ ClientIdle
    /\ SheetsIdle
    /\ DurationIdle
    /\ RunIdle
    /\ WritersIdle

NextCadence == ComputePostingPace

SpecCadence == InitCadence /\ [][NextCadence]_vars

\* _parse_duration on every duration string drawn
InitDuration ==
    /\ duration_str \in DurationStrings
    /\ duration_seconds = <<>>
    /\ FormatIdle
    /\ ClientIdle
    /\ SheetsIdle
    /\ PaceIdle
    /\ RunIdle
    /\ WritersIdle

NextDuration == ParseDurationCall

SpecDuration == InitDuration /\ [][NextDuration]_vars

\* a spreadsheet without worksheets, on which runs read and append the
\* history log and replace the current table while the days pass
InitHistory ==
    /\ SheetsIdle
    /\ FormatIdle
    /\ PaceIdle
    /\ DurationIdle
    /\ RunIdle
    /\ WritersIdle
    /\ ClientIdle

NextHistory ==
    \/ GetPreviousStats
    \/ UpdateVideoHistory
    \/ UpdateCurrentData
    \/ ReturnFromSheets
    \/ DayPasses

SpecHistory == InitHistory /\ [][NextHistory]_vars

\* runs of the dashboard search and of generate_csv, one after the other
InitRun ==
    /\ FormatIdle
    /\ remote_videos = VideoIds
    /\ remote_channels = ChannelIds
    /\ video_cache = << >>
    /\ channel_cache = << >>
    /\ last_call = NoCall
    /\ SheetsIdle
    /\ PaceIdle
    /\ DurationIdle
    /\ RunIdle
    /\ WritersIdle

NextRun ==
    \/ RunStart
    \/ RunKeyword
    \/ RunAfterLoop
    \/ RunUpdateHistory
    \/ RunUpdateCurrent
    \/ RunEnd
    \/ DayPasses

SpecRun == InitRun /\ [][NextRun]_vars

\* two runs, started in any order and interleaved at their sheet operations;
\* the day passes between the steps
InitConcurrent ==
    /\ FormatIdle
    /\ ClientIdle
    /\ SheetsIdle
    /\ PaceIdle
    /\ DurationIdle
    /\ RunIdle
    /\ log_sheet \in { AbsentLog, [exists |-> TRUE, cells |-> << HeaderRow >>] }
    /\ writers = [ w \in Writers |-> NotStarted ]

NextConcurrent ==
    \/ WriterStart
    \/ Worksheet
    \/ AddWorksheet
    \/ AppendRow
    \/ GetAllRecords
    \/ AppendRows
    \/ DayPasses

SpecConcurrent == InitConcurrent /\ [][NextConcurrent]_vars

(***************************************************************************)
(* Claims about format_video_data (checked under SpecFormat).              *)
(***************************************************************************)
\* the video id has an entry in the previous-stats map
HasPrevious(vid) == ~previous_stats.isNone /\ vid \in DOMAIN previous_stats.stats
\* the viewCount of that entry (0 when the entry has none)
PreviousViews(vid) == Get(previous_stats.stats[vid].viewCount, 0)
\* the current view count of a video item
CurrentViews(video) == Get(video.viewCount, 0)

\* C1: for every video whose id has an entry in previous_stats, view_change is
\* the current view count minus the previous viewCount (possibly negative) and
\* estimated_24h_views is max(0, view_change); estimated_24h_views is never
\* negative in any formatted record.
C1_ViewChangeAgainstPrevious ==
    fmt_pc = "done" =>
        \A i \in DOMAIN videos :
            LET out == formatted_data[i]
                vid == videos[i].id
            IN  /\ out.estimated_24h_views >= 0
                /\ HasPrevious(vid) =>
                      /\ out.view_change = CurrentViews(videos[i]) - PreviousViews(vid)
                      /\ out.estimated_24h_views =
                            IF out.view_change > 0 THEN out.view_change ELSE 0

\* C1 witness: previous 100 and current 80 formatted to view_change -20, estimate 0
C1_Witness ==
    /\ fmt_pc = "done"
    /\ \E i \in DOMAIN videos :
          /\ HasPrevious(videos[i].id)
          /\ PreviousViews(videos[i].id) = 100
          /\ CurrentViews(videos[i]) = 80
          /\ formatted_data[i].view_change = 0 - 20
          /\ formatted_data[i].estimated_24h_views = 0

\* C2: with no previous stats (None or an empty map), or with the video's id
\* absent from the map, view_change and estimated_24h_views are both 0, for
\* every video of the batch.
C2_NoPreviousGivesZero ==
    fmt_pc = "done" =>
        \A i \in DOMAIN videos :
            ~HasPrevious(videos[i].id) =>
                /\ formatted_data[i].view_change = 0
                /\ formatted_data[i].estimated_24h_views = 0

\* C2 witness: a formatted batch of two videos with views, one without a previous
\* entry in a non-empty map
C2_Witness ==
    /\ fmt_pc = "done"
    /\ Len(videos) >= 2
    /\ ~previous_stats.isNone
    /\ previous_stats.stats # <<>>
    /\ \E i \in DOMAIN videos :
          /\ ~HasPrevious(videos[i].id)
          /\ CurrentViews(videos[i]) > 0
          /\ formatted_data[i].view_change = 0

\* the subscriber count format_video_data reads for a video: the count the
\* channel record reports, 1 when the channel or its subscriberCount is missing
ReportedSubscribers(video) ==
    IF video.channelId \in DOMAIN channels_data
    THEN Get(channels_data[video.channelId].subscriberCount, 1)
    ELSE 1

\* r (hundredths) is num / den rounded to two decimals
IsRounded2(r, num, den) ==
    LET d == 100 * num - r * den
    IN  IF d >= 0 THEN 2 * d <= den ELSE 2 * (0 - d) <= den

\* C3 as stated: engagement_ratio = view_count / max(subscriber_count, 1) for
\* every video, a reported subscriber count of 0 being treated as 1
\* (the ratio taken to two decimals, as the formatted record holds it).
C3_Original ==
    fmt_pc = "done" =>
        \A i \in DOMAIN videos :
            IsRounded2(formatted_data[i].engagement_ratio,
                       CurrentViews(videos[i]),
                       Max(ReportedSubscribers(videos[i]), 1))

\* C3 amended: engagement_ratio is view_count / subscriber_count rounded to two
\* decimals when the subscriber count read for the video is positive, and 0 when
\* the channel record reports a subscriber count of 0; the count is taken as 1
\* only when the channel or its subscriberCount is missing.
C3_EngagementRatio ==
    fmt_pc = "done" =>
        \A i \in DOMAIN videos :
            LET out == formatted_data[i]
                sub == ReportedSubscribers(videos[i])
            IN  /\ out.subscriber_count = sub
                /\ sub > 0 => IsRounded2(out.engagement_ratio, CurrentViews(videos[i]), sub)
                /\ sub = 0 => out.engagement_ratio = 0

\* C3 witness: 500 views on a channel reporting 0 subscribers formatted to ratio 0
C3_Witness ==
    /\ fmt_pc = "done"
    /\ \E i \in DOMAIN videos :
          /\ CurrentViews(videos[i]) = 500
          /\ videos[i].channelId \in DOMAIN channels_data
          /\ channels_data[videos[i].channelId].subscriberCount = <<0>>
          /\ formatted_data[i].engagement_ratio = 0

(***************************************************************************)
(* Claims about the detail lookups of the client (checked under Spec).     *)
(* last_call describes the call that has just run; video_cache and         *)
(* channel_cache are the caches as that call left them.                    *)
(***************************************************************************)
\* the ids of a list of items
IdsOf(items) == [k \in DOMAIN items |-> items[k].id]

\* how often id occurs in a list of ids
Occurrences(ids, id) == Cardinality({k \in DOMAIN ids : ids[k] = id})

\* the least q with q * d >= n
CeilDiv(n, d) == CHOOSE q \in 0..n : q * d >= n /\ (q = 0 \/ (q - 1) * d < n)

\* the k-th of the consecutive slices of BatchSize ids of a list
Slice(ids, k) ==
    SubSeq(ids, (k - 1) * BatchSize + 1, Min(k * BatchSize, Len(ids)))

\* the call made no request that failed
NoTransportError ==
    /\ ~last_call.raised
    /\ \A k \in DOMAIN last_call.chunks : last_call.chunks[k].outcome \in {"ok", "none"}

\* the ids in the cache once the k-th iteration of the latest call was over
CachedAfterChunk(k, final_cache) ==
    IF k < Len(last_call.chunks) THEN last_call.chunks[k + 1].cached
    ELSE DOMAIN final_cache

\* the lists appended by the iterations k..end, one after the other
RECURSIVE AppendedFrom(_)
AppendedFrom(k) ==
    IF k > Len(last_call.chunks) THEN <<>>
    ELSE last_call.chunks[k].appended \o AppendedFrom(k + 1)

\* C4 as stated: for a list of resolvable ids and any cache state, with no
\* transport error, every input id appears exactly once in the returned list.
C4_Original ==
    ( /\ last_call.op = "get_videos_details"
      /\ NoTransportError
      /\ Range(last_call.input) \subseteq remote_videos )
    => \A id \in Range(last_call.input) :
          Occurrences(IdsOf(last_call.result), id) = 1

\* C4 amended: for a list of resolvable ids and any cache state, with no
\* transport error, the ids of the returned list are the input list itself:
\* every input id appears in the result as often as in the input (exactly once
\* when the input holds it once); the cache neither drops nor duplicates an
\* entity, and the call does not deduplicate its input.
C4_EveryIdReturned ==
    ( /\ last_call.op = "get_videos_details"
      /\ NoTransportError
      /\ Range(last_call.input) \subseteq remote_videos )
    => /\ IdsOf(last_call.result) = last_call.input
       /\ \A id \in Range(last_call.input) :
             Occurrences(IdsOf(last_call.result), id) = Occurrences(last_call.input, id)

\* C4 witness: a call over several chunks, without failure, on resolvable ids
\* of which some were cached by an earlier call and some were not
C4_Witness ==
    /\ last_call.op = "get_videos_details"
    /\ NoTransportError
    /\ Range(last_call.input) \subseteq remote_videos
    /\ Len(last_call.input) > BatchSize
    /\ \E a, b \in Range(last_call.input) :
          /\ a \in DOMAIN last_call.cache_before
          /\ b \notin DOMAIN last_call.cache_before
    /\ IdsOf(last_call.result) = last_call.input

\* no request of the latest call carries an id that was cached when it was made
NoCachedIdRequested ==
    \A k \in DOMAIN last_call.chunks :
        Range(last_call.chunks[k].request) \cap last_call.chunks[k].cached = {}

\* a step evicts nothing from either cache
NoEviction ==
    /\ DOMAIN video_cache \subseteq DOMAIN video_cache'
    /\ DOMAIN channel_cache \subseteq DOMAIN channel_cache'

\* C5: over any sequence of get_videos_details and get_channel_details calls on
\* one client, no remote detail request contains an id that is in the
\* corresponding cache, and cache entries are never evicted: an id resolved
\* once is never requested again.
C5_CachedIdsNeverRequested == [] NoCachedIdRequested /\ [][NoEviction]_vars

\* C5 witness: a call whose chunk held a cached id next to an uncached one and
\* requested the uncached one
C5_Witness ==
    /\ last_call.op \in {"get_videos_details", "get_channel_details"}
    /\ \E k \in DOMAIN last_call.chunks :
          /\ last_call.chunks[k].request # <<>>
          /\ Range(last_call.chunks[k].batch) \cap last_call.chunks[k].cached # {}
    /\ \E id \in Range(last_call.input) : id \in DOMAIN last_call.cache_before

\* C6 as stated: the returned list equals the input id list with the
\* unresolved ids (those without an item in the cache after the call) removed.
C6_Original ==
    (last_call.op = "get_videos_details" /\ ~last_call.raised)
    => IdsOf(last_call.result) =
          SelectSeq(last_call.input, LAMBDA id : id \in DOMAIN video_cache)

\* the positions of the input whose id was cached once their chunk was over
KeptPositions ==
    SelectSeq([p \in 1..Len(last_call.input) |-> p],
              LAMBDA p : last_call.input[p] \in
                            CachedAfterChunk(((p - 1) \div BatchSize) + 1, video_cache))

\* the input list has no id twice
NoRepeatedId(ids) == \A a, b \in DOMAIN ids : a # b => ids[a] # ids[b]

\* C6 amended: the returned list is in original input order: it is the input
\* list without the occurrences whose id was not in the cache when their chunk
\* was appended, whatever mix of cached and newly fetched ids a chunk holds.
\* For an input without repeated ids, and for any call without a failed
\* request, that is the input list with the ids absent from the cache after the
\* call removed.
C6_InputOrderKept ==
    (last_call.op = "get_videos_details" /\ ~last_call.raised)
    => /\ IdsOf(last_call.result) =
             [j \in DOMAIN KeptPositions |-> last_call.input[KeptPositions[j]]]
       /\ (NoRepeatedId(last_call.input) \/ NoTransportError) =>
             IdsOf(last_call.result) =
                SelectSeq(last_call.input, LAMBDA id : id \in DOMAIN video_cache)

\* C6 witness: a chunk holding a cached id before a newly fetched one, and an
\* unresolved id left out of a non-empty result
C6_Witness ==
    /\ last_call.op = "get_videos_details"
    /\ ~last_call.raised
    /\ \E k \in DOMAIN last_call.chunks :
          LET c == last_call.chunks[k]
          IN  /\ Len(c.batch) >= 2
              /\ c.batch[1] \in c.cached
              /\ c.batch[2] \notin c.cached
              /\ c.outcome = "ok"
              /\ Len(c.appended) = 2
    /\ \E id \in Range(last_call.input) : id \notin DOMAIN video_cache
    /\ last_call.result # <<>>

\* C7: get_videos_details on N ids splits them into ceil(N / BatchSize)
\* consecutive chunks and issues at most one request per chunk, so at most
\* ceil(N / BatchSize) requests, each of at most BatchSize ids; a chunk whose
\* ids are all cached issues no request.
C7_ChunkedRequests ==
    last_call.op = "get_videos_details" =>
        LET n      == Len(last_call.input)
            chunks == last_call.chunks
        IN  /\ Len(chunks) <= CeilDiv(n, BatchSize)
            /\ ~last_call.raised => Len(chunks) = CeilDiv(n, BatchSize)
            /\ \A k \in DOMAIN chunks :
                  /\ chunks[k].batch = Slice(last_call.input, k)
                  /\ Len(chunks[k].request) <= BatchSize
                  /\ Range(chunks[k].request) \subseteq Range(chunks[k].batch)
                  /\ (chunks[k].request = <<>>) = (chunks[k].outcome = "none")
                  /\ Range(chunks[k].batch) \subseteq chunks[k].cached
                        => chunks[k].request = <<>>
            /\ Cardinality({k \in DOMAIN chunks : chunks[k].request # <<>>})
                  <= CeilDiv(n, BatchSize)

\* C7 witness: a list longer than two chunks, one chunk all cached and without
\* a request, another chunk with a request
C7_Witness ==
    /\ last_call.op = "get_videos_details"
    /\ Len(last_call.input) > 2 * BatchSize
    /\ Len(last_call.chunks) = CeilDiv(Len(last_call.input), BatchSize)
    /\ \E j, k \in DOMAIN last_call.chunks :
          /\ last_call.chunks[j].request = <<>>
          /\ last_call.chunks[k].request # <<>>
          /\ Len(last_call.chunks[k].batch) = BatchSize

C9_ChannelMapFromCache ==
    last_call.op = "get_channel_details" =>
        /\ (\A k \in DOMAIN last_call.chunks : last_call.chunks[k].outcome # "OtherError")
              => ~last_call.raised
        /\ ~last_call.raised =>
              /\ DOMAIN last_call.result = Range(last_call.input) \cap DOMAIN channel_cache
              /\ \A cid \in DOMAIN last_call.result :
                    last_call.result[cid] = channel_cache[cid]
              /\ \A k \in DOMAIN last_call.chunks :
                    last_call.chunks[k].outcome = "HttpError" =>
                        Range(last_call.chunks[k].batch) \cap DOMAIN last_call.result = {}
              /\ \A cid \in Range(last_call.input) :
                    (cid \notin remote_channels /\ cid \notin DOMAIN last_call.cache_before)
                        => cid \notin DOMAIN last_call.result

\* C9 witness: a lookup of repeated ids in which one batch failed and another
\* was answered; the map holds some input ids and lacks others, and the cache
\* holds a channel that was not asked for
C9_Witness ==
    /\ last_call.op = "get_channel_details"
    /\ ~last_call.raised
    /\ \E j, k \in DOMAIN last_call.chunks :
          /\ last_call.chunks[j].outcome = "HttpError"
          /\ last_call.chunks[k].outcome = "ok"
    /\ DOMAIN last_call.result # {}
    /\ Range(last_call.input) \ DOMAIN last_call.result # {}
    /\ Len(last_call.input) > Cardinality(Range(last_call.input))

(***************************************************************************)
(* Claims about get_previous_stats (checked under SpecSheets).             *)
(***************************************************************************)
\* the call read a log that has its header, and no sheet operation failed
ReadWholeLog ==
    /\ sheet_call.op = "get_previous_stats"
    /\ sheet_call.failed = "none"
    /\ history.exists
    /\ history.header = Headers

\* the rows of the log for a video id
RowsOf(vid) == {k \in DOMAIN history.rows : history.rows[k].video_id = vid}

\* row k has the latest date among the rows of its video id
IsLatest(k) ==
    \A j \in RowsOf(history.rows[k].video_id) :
        ToDatetime(history.rows[j].date) <= ToDatetime(history.rows[k].date)

\* C10: get_previous_stats returns, for each video id in the history log, the
\* viewCount and date of its row with the latest date, whatever order the rows
\* have in the log.
C10_LatestRowPerVideo ==
    ReadWholeLog =>
        /\ DOMAIN sheet_call.result = {history.rows[k].video_id : k \in DOMAIN history.rows}
        /\ \A vid \in DOMAIN sheet_call.result :
              \E k \in RowsOf(vid) :
                  /\ IsLatest(k)
                  /\ sheet_call.result[vid].viewCount = history.rows[k].view_count
                  /\ sheet_call.result[vid].date = ToDatetime(history.rows[k].date)

\* C10 witness: the log holds (v1, 40, 2024-01-03) before (v1, 10, 2024-01-01);
\* the call returned viewCount 40 and date 2024-01-03 for v1
C10_Witness ==
    /\ ReadWholeLog
    /\ Len(history.rows) >= 2
    /\ history.rows[1] = [video_id |-> "v1", view_count |-> 40, date |-> "2024-01-03"]
    /\ history.rows[2] = [video_id |-> "v1", view_count |-> 10, date |-> "2024-01-01"]
    /\ sheet_call.result["v1"] = [viewCount |-> 40, date |-> ToDatetime("2024-01-03")]

\* the last inserted of the rows of a video id that carry its latest date
LastInsertedLatest(vid) ==
    CHOOSE k \in RowsOf(vid) :
        /\ IsLatest(k)
        /\ \A j \in RowsOf(vid) : IsLatest(j) => j <= k

\* C11: when the log holds several rows for one video id with the same date,
\* get_previous_stats returns the row that was inserted last (last write wins
\* by insertion order), for any number of rows in the log.
C11_LastWriteWinsOnTies ==
    ReadWholeLog =>
        \A vid \in DOMAIN sheet_call.result :
            sheet_call.result[vid].viewCount =
                history.rows[LastInsertedLatest(vid)].view_count


\* the log and the current table before the call that sheet_call records
HistoryBefore == sheet_call.before.history
CurrentBefore == sheet_call.before.current_data
Succeeded(op) == sheet_call.op = op /\ sheet_call.failed = "none"

\* C12: a completed update_video_history leaves the log as it was, followed by
\* one row (video_id, view_count, today's date) per input video in input order;
\* a log that was absent exists afterwards under the header; with empty input
\* the log is unchanged.
C12_AppendsOneRowPerVideo ==
    Succeeded("update_video_history") =>
        LET input == sheet_call.input
            old   == HistoryBefore.rows
        IN  /\ Len(history.rows) = Len(old) + Len(input)
            /\ \A k \in DOMAIN old : history.rows[k] = old[k]
            /\ \A k \in DOMAIN input :
                   /\ history.rows[Len(old) + k].video_id = input[k].video_id
                   /\ history.rows[Len(old) + k].view_count = input[k].view_count
                   /\ history.rows[Len(old) + k].date = today
            /\ input = <<>> => history = HistoryBefore
            /\ input # <<>> /\ ~HistoryBefore.exists =>
                   history.exists /\ history.header = Headers
            /\ HistoryBefore.exists => history.header = HistoryBefore.header

C12_Witness ==
    /\ Succeeded("update_video_history")
    /\ HistoryBefore.rows # <<>>
    /\ Len(history.rows) > Len(HistoryBefore.rows)
    /\ history.rows[1].date # today

\* C13: after a completed update_current_data with a non-empty batch the
\* current_data table holds exactly the rows of that batch.
C13_FullReplace ==
    Succeeded("update_current_data") /\ sheet_call.input # <<>> =>
        current_data.exists /\ current_data.rows = sheet_call.input

C13_Witness ==
    /\ Succeeded("update_current_data")
    /\ sheet_call.input # <<>>
    /\ CurrentBefore.rows # <<>>
    /\ \A k \in DOMAIN CurrentBefore.rows :
           CurrentBefore.rows[k] \notin Range(sheet_call.input)

\* C14: get_previous_stats on a spreadsheet without history log creates the log
\* under the header (video_id, view_count, date) and returns the empty map; on a
\* log whose header lacks video_id or date it returns the empty map and leaves
\* the log alone; neither call raises.
C14_AbsentOrMalformedLog ==
    Succeeded("get_previous_stats") =>
        /\ ~HistoryBefore.exists =>
               /\ history = [exists |-> TRUE, header |-> Headers, rows |-> <<>>]
               /\ sheet_call.result = <<>>
               /\ ~sheet_call.raised
        /\ /\ HistoryBefore.exists
           /\ ("video_id" \notin Range(HistoryBefore.header)
                  \/ "date" \notin Range(HistoryBefore.header))
           => /\ sheet_call.result = <<>>
              /\ history = HistoryBefore
              /\ ~sheet_call.raised

C14_Witness ==
    /\ Succeeded("get_previous_stats")
    /\ HistoryBefore.exists
    /\ HistoryBefore.header = << "view_count", "date" >>
    /\ HistoryBefore.rows # <<>>
    /\ sheet_call.result = <<>>

\* C15: no call of get_previous_stats, update_video_history or
\* update_current_data in which a sheet operation fails raises to its caller;
\* such a get_previous_stats returns the empty map.
C15_SheetErrorsNotPropagated ==
    sheet_call.op # "none" =>
        /\ ~sheet_call.raised
        /\ sheet_call.failed # "none" => sheet_call.result = <<>>

C15_Witness ==
    /\ sheet_call.op = "update_video_history"
    /\ sheet_call.failed = "append_rows"
    /\ ~sheet_call.raised

\* C16: a call of update_current_data in which a sheet operation fails leaves
\* the current_data table with the rows it had before the call.
C16_FailedUpdateKeepsTable ==
    sheet_call.op = "update_current_data" /\ sheet_call.failed # "none" =>
        current_data.rows = CurrentBefore.rows

\* C17: whenever the history log exists and has rows, its first row is the
\* header (video_id, view_count, date).
C17_FirstRowIsHeader ==
    history.exists /\ history.rows # <<>> => history.header = Headers

\* the timestamps of publish_dates newest first, and their whole-day gaps
NewestFirst ==
    [i \in DOMAIN publish_dates |->
        CHOOSE t \in PublishTimes :
            /\ Cardinality({j \in DOMAIN publish_dates : publish_dates[j] > t}) < i
            /\ i <= Cardinality({j \in DOMAIN publish_dates : publish_dates[j] >= t})]
Gap(i) == (NewestFirst[i] - NewestFirst[i + 1]) \div 24
GapCount == Len(publish_dates) - 1
GapTotal == Sum([i \in 1..GapCount |-> Gap(i)])
Abs(x) == IF x < 0 THEN 0 - x ELSE x

\* C19 as stated: the stored avg_days_between_videos is the mean of the gaps,
\* the stored videos_per_month is 30 / max(mean, 1) and lies in (0, 30].
C19_Original ==
    posting_pace # <<>> =>
        /\ \A i \in 1..GapCount : Gap(i) >= 0
        /\ posting_pace[1].avg_days_between_videos * GapCount = 10 * GapTotal
        /\ posting_pace[1].videos_per_month * Max(GapTotal, GapCount) = 300 * GapCount
        /\ posting_pace[1].videos_per_month > 0
        /\ posting_pace[1].videos_per_month <= 300

\* C19: when the pace is computed, every whole-day gap between consecutive
\* timestamps sorted newest first is >= 0, avg_days_between_videos is their
\* mean rounded to one decimal, videos_per_month is 30 / max(mean, 1) rounded
\* to one decimal, and 0 <= videos_per_month <= 30 (0.0 for a mean above 600
\* days).
C19_PostingPaceRounded ==
    posting_pace # <<>> =>
        /\ \A i \in 1..GapCount : Gap(i) >= 0
        /\ 2 * Abs(posting_pace[1].avg_days_between_videos * GapCount - 10 * GapTotal)
               <= GapCount
        /\ 2 * Abs(posting_pace[1].videos_per_month * Max(GapTotal, GapCount)
                       - 300 * GapCount)
               <= Max(GapTotal, GapCount)
        /\ posting_pace[1].videos_per_month >= 0
        /\ posting_pace[1].videos_per_month <= 300
        /\ posting_pace[1].videos_per_month = 0 => GapTotal >= 600 * GapCount

C19_Witness ==
    /\ posting_pace # <<>>
    /\ Len(publish_dates) = 4
    /\ publish_dates # NewestFirst
    /\ posting_pace[1].avg_days_between_videos * GapCount # 10 * GapTotal
    /\ posting_pace[1].videos_per_month \notin {0, 300}

\* the number a digit string of the durations drawn stands for
ValueOf(number) ==
    CASE number = <<>> -> 0
      [] number = << "0" >> -> 0
      [] number = << "1" >> -> 1
      [] number = << "2" >> -> 2
      [] number = << "2", "0" >> -> 20
      [] number = << "0", "5" >> -> 5
      [] number = << "1", "0", "0" >> -> 100

\* PT, then the groups that are present, in the order H, M, S
WellFormedDuration(h, m, s) ==
    << "P", "T" >> \o Group(h, "H") \o Group(m, "M") \o Group(s, "S")

\* C20: for every duration string PT[h]H[m]M[s]S with any subset of the groups
\* present in that order, _parse_duration returns 3600*h + 60*m + s, an absent
\* group counting as 0.
C20_WellFormedDuration ==
    duration_seconds # <<>> =>
        \A h, m, s \in Numbers \cup {<<>>} :
            duration_str = WellFormedDuration(h, m, s) =>
                duration_seconds[1] = 3600 * ValueOf(h) + 60 * ValueOf(m) + ValueOf(s)

C20_Witness ==
    /\ duration_str = << "P", "T", "1", "M", "2", "0", "S" >>
    /\ duration_seconds = << 80 >>

\* the channels of the returned map that carry the cadence fields, and the
\* parseable publish timestamps this call obtained for a channel
HasCadence(channel_id) == "posting_pace" \in DOMAIN last_call.result[channel_id]
ParseableObtained(channel_id) ==
    IF channel_id \in DOMAIN last_call.obtained
    THEN Cardinality({k \in DOMAIN last_call.obtained[channel_id] :
                         PublishedAt(last_call.obtained[channel_id][k]) # <<>>})
    ELSE 0

\* C18: a channel of the map returned by fetch_channel_stats carries
\* posting_pace only if this call obtained at least 2 latest videos with
\* parseable publish timestamps for it, whatever calls were made before.
C18_CadenceOnlyFromThisCall ==
    last_call.op = "fetch_channel_stats" =>
        \A channel_id \in DOMAIN last_call.result :
            HasCadence(channel_id) => ParseableObtained(channel_id) >= 2

\* the duration strings of the form PT[h]H[m]M[s]S
IsWellFormedDuration(str) ==
    \E h, m, s \in Numbers \cup {<<>>} : str = WellFormedDuration(h, m, s)

\* C21: for every empty or malformed duration string (not starting with PT,
\* groups out of order, trailing characters after a valid prefix, other
\* components) _parse_duration returns 0.
C21_MalformedGivesZero ==
    duration_seconds # <<>> /\ ~IsWellFormedDuration(duration_str) =>
        duration_seconds = << 0 >>

\* C25: a video whose channel is missing from the channel map passed to
\* format_video_data is still formatted, at its place in the output, with
\* subscriber_count = 1 and engagement_ratio equal to its view_count; the
\* output has one entry per input video.
C25_MissingChannelFallback ==
    fmt_pc = "done" =>
        /\ Len(formatted_data) = Len(videos)
        /\ \A i \in DOMAIN videos :
               videos[i].channelId \notin DOMAIN channels_data =>
                   /\ formatted_data[i].video_id = videos[i].id
                   /\ formatted_data[i].subscriber_count = 1
                   /\ formatted_data[i].engagement_ratio
                          = 100 * formatted_data[i].view_count
                   /\ formatted_data[i].view_count = Get(videos[i].viewCount, 0)

C25_Witness ==
    /\ fmt_pc = "done"
    /\ \E i \in DOMAIN videos :
           /\ videos[i].channelId \notin DOMAIN channels_data
           /\ formatted_data[i].view_count = 500
           /\ formatted_data[i].engagement_ratio = 50000
    /\ \E i \in DOMAIN videos : videos[i].channelId \in DOMAIN channels_data

\* the channels whose details the call of fetch_channel_stats had (asked for
\* and in the channel cache), and whether its get_channel_details raised
ChannelsWithDetails == Range(last_call.input) \cap DOMAIN channel_cache
ChannelLookupRaised ==
    \E k \in DOMAIN last_call.chunks : last_call.chunks[k].outcome = "OtherError"

\* C24: in fetch_channel_stats over several channels a failure while processing
\* one channel leaves the other channels in the returned map: at most the
\* failing channel is missing from it.
C24_OneChannelFailureIsolated ==
    last_call.op = "fetch_channel_stats" /\ ~ChannelLookupRaised =>
        Cardinality({c \in ChannelsWithDetails : c \notin DOMAIN last_call.result}) <= 1

\* C28: fetch_channel_stats leaves the records of the client's channel cache
\* as they were fetched.
C28_ChannelCacheUnchanged ==
    last_call.op = "fetch_channel_stats" =>
        \A c \in DOMAIN channel_cache : channel_cache[c] = ChannelItem(c)

\* the row that the latest update_video_history stored for a video id (the log
\* is append-only: its last row for that id)
LastStored(vid) == CHOOSE k \in RowsOf(vid) : \A j \in RowsOf(vid) : j <= k

\* C26: when update_video_history has stored view_count a for video v and the
\* log has no row for v with a later date, the next get_previous_stats returns
\* viewCount a for v and a run that then observes view_count b reports
\* view_change = b - a, also when the log has an earlier row for v of the same
\* day.
C26_HistoryRoundTrip ==
    Succeeded("get_previous_stats") =>
        \A vid \in LogVideoIds :
            RowsOf(vid) # {} /\ IsLatest(LastStored(vid)) =>
                /\ vid \in DOMAIN sheet_call.result
                /\ sheet_call.result[vid].viewCount
                       = history.rows[LastStored(vid)].view_count
                /\ \A b \in ViewCounts :
                       FormatVideo([id |-> vid, channelId |-> ChannelOf(vid),
                                    viewCount |-> << b >>],
                                   <<>>, AsPreviousStats(sheet_call.result)).view_change
                           = b - history.rows[LastStored(vid)].view_count

(***************************************************************************)
(* Claims about a search run (checked under SpecRun).                      *)
(***************************************************************************)
\* C22: when the search request of search_videos ends with a transport error,
\* of whatever kind, the call returns the empty list and raises nothing.
C22_SearchErrorsGiveEmptyList ==
    run.search.outcome \in Outcomes \ {"ok"} =>
        run.search.result = << >> /\ ~run.search.raised

\* the keywords of the run that have been searched
Searched == { run.keywords[k] : k \in 1..(run.idx - 1) }

\* C23: a dashboard run over several keywords ends with every keyword
\* searched, whatever error one of the keywords met, and with an entry in
\* keywords_data for every keyword whose videos were found and looked up.
C23_KeywordErrorsIsolated ==
    run.pc = "done" /\ run.kind = "dashboard" /\ Len(run.keywords) >= 2 =>
        /\ Searched = Range(run.keywords)
        /\ run.ended # "error"

\* the positions of an operation in the calls of the run
CallsOf(op) == { k \in DOMAIN run.calls : run.calls[k] = op }
\* the rows the run has appended to the log so far
AppendedByRun == SubSeq(history.rows, Len(run.log_before) + 1, Len(history.rows))

FirstStored ==
    LET stored == { run.keywords_data[k].keyword : k \in DOMAIN run.keywords_data }
        i == CHOOSE i \in DOMAIN run.keywords :
                 /\ run.keywords[i] \in stored
                 /\ \A j \in 1..(i - 1) : run.keywords[j] \notin stored
    IN  run.keywords[i]
VideoIdsOf(data) == { data[k].video_id : k \in DOMAIN data }
DataOf(keyword) ==
    LET k == CHOOSE k \in DOMAIN run.keywords_data :
                 run.keywords_data[k].keyword = keyword
    IN  run.keywords_data[k].data

\* C29: a run connected to the spreadsheet that stored results sends to the
\* history log and to the current table the formatted videos of the first
\* keyword that produced results and nothing else: a video found only under
\* another keyword gets no row from the run, and a video without a row in the
\* log has no previous statistics in the run that reads the log.
C29_OnlyFirstKeywordLogged ==
    /\ run.pc = "done" /\ run.ended = "completed" /\ run.connected =>
          /\ run.video_data = DataOf(FirstStored)
          /\ AppendedByRun \in { << >>, NewRows(DataOf(FirstStored), today) }
          /\ sheet_call.op = "update_current_data"
          /\ sheet_call.failed = "none" => current_data.rows = DataOf(FirstStored)
          /\ \A k \in DOMAIN run.keywords_data :
                \A vid \in VideoIdsOf(run.keywords_data[k].data) \ VideoIdsOf(DataOf(FirstStored)) :
                    \A a \in DOMAIN AppendedByRun : AppendedByRun[a].video_id # vid
    /\ run.pc # "idle" =>
          \A vid \in VideoIds :
              (\A k \in DOMAIN run.log_before : run.log_before[k].video_id # vid)
                  => vid \notin DOMAIN run.previous_stats

\* a run over k1, k2 that stored both: the rows of v1 and v2 (k1) are appended
\* and written, v3 (k2) has no row in the log
C29_Witness ==
    /\ run.pc = "done" /\ run.ended = "completed" /\ run.connected
    /\ run.keywords = << "k1", "k2" >>
    /\ Len(run.keywords_data) = 2
    /\ VideoIdsOf(run.keywords_data[2].data) = {"v3"}
    /\ VideoIdsOf(AppendedByRun) = {"v1", "v2"}
    /\ current_data.rows = run.keywords_data[1].data
    /\ \A k \in DOMAIN history.rows : history.rows[k].video_id # "v3"

(***************************************************************************)
(* Claims about two runs on one spreadsheet (checked under SpecConcurrent). *)
(***************************************************************************)
\* both runs are through their sheet operations
BothDone == \A w \in Writers : writers[w].pc = "done"
\* the header is the first row of the log and occurs once
HeaderFirst ==
    /\ log_sheet.cells # << >>
    /\ log_sheet.cells[1] = HeaderRow
    /\ \A k \in DOMAIN log_sheet.cells : k > 1 => log_sheet.cells[k] # HeaderRow
\* the rows of run w are in the log
RowsAppended(w) ==
    \A r \in DOMAIN writers[w].rows :
        \E k \in DOMAIN log_sheet.cells : log_sheet.cells[k] = writers[w].rows[r]
\* some step of a run was taken while the other run was under way
Overlapped == \E w \in Writers : writers[w].overlapped

\* C30: the guarantees of the history log (header first, every run's rows
\* appended) hold when the two runs do not overlap; with overlapping runs on
\* an absent log an interleaving breaks them.
C30_SingleWriterGuarantee ==
    BothDone /\ ~Overlapped =>
        HeaderFirst /\ \A w \in Writers : RowsAppended(w) /\ ~writers[w].lost

\* the two runs overlapped on an absent log and the header is below a data row
C30_Witness ==
    /\ BothDone
    /\ Overlapped
    /\ \A w \in Writers : ~writers[w].lost
    /\ Len(log_sheet.cells) = 3
    /\ log_sheet.cells[1] # HeaderRow
    /\ \E k \in 2..3 : log_sheet.cells[k] = HeaderRow
====
